---- MODULE Spec2Model ----
(***************************************************************************)
(* Model of the web-rag-engine: the ingestion API (api/app/main.py), the   *)
(* Celery worker tasks (worker/app/tasks.py, worker/app/ingest.py) and the *)
(* query pipeline (api/app/query.py).                                      *)
(*                                                                         *)
(* State: the job table (PostgreSQL), the temp directory of uploads, the   *)
(* API requests in flight, the broker's messages, the task invocations in  *)
(* flight, the Chroma collection and the query in flight.                  *)
(***************************************************************************)
EXTENDS Integers, Sequences, FiniteSets, TLC

\* ---------------------------------------------------------------- bounds
\* Number of submissions (ingest_url + ingest_file calls) in one behaviour.
MaxReqs == 2
\* Number of task deliveries (worker invocations) in one behaviour.
MaxDeliveries == 2
\* Number of queries in one behaviour.
MaxQueries == 1
\* chunk_text window and overlap, scaled down from 1000 / 200 characters.
ChunkSize == 3
ChunkOverlap == 1
\* The longest raw text the whitespace clean-up is run on.
MaxRawLen == 5

\* ------------------------------------------------------------ value sets
\* The strings str(request.url) takes.
Urls == {<<"http://a">>}
\* The random names tempfile.NamedTemporaryFile draws from (the suffix is
\* added to them).
TmpNames == {"tmpA", "tmpB"}
PDF == "application/pdf"
DOCX == "application/vnd.openxmlformats-officedocument.wordprocessingml.document"
\* The content types an upload can declare; the last is not allowed.
ContentTypes == {PDF, DOCX, "text/plain"}
\* The cleaned texts an extraction can return: empty, one chunk, several.
Texts == {<<>>, <<"a", "b">>, <<"a", "b", "c", "d", "e">>}
\* The raw query texts, the texts the rewrite call returns (stripped), and
\* the texts the answer call returns.
Queries == {"what is x"}
Rewrites == {"what exactly is x"}
NotFoundAnswer == "I could not find an answer in the ingested content."
Answers == {"x is y"}
\* n_results of the retrieval.
NResults == 3
\* A job id no row ever has (ids are allocated 1, 2, ... and every row comes
\* from a submission).
StaleId == MaxReqs + 1

VARIABLES
  jobs,     \* the ingestion_jobs table: row id -> [url, status]
  tmpdir,   \* the files of the temp directory (full paths)
  reqs,     \* the API submissions in flight
  nreq,     \* the number of submissions made
  resp,     \* the last response of a submission endpoint
  queue,    \* the messages the broker holds
  tasks,    \* the task invocations in flight
  ndel,     \* the number of task deliveries made
  last,     \* the last task invocation that ended
  kstore,   \* the Chroma collection: a set of [id, text, meta]
  q,        \* the query in flight (or the last one)
  nq,       \* the number of queries made
  norm      \* a text under whitespace clean-up: the raw text and the results

vars == <<jobs, tmpdir, reqs, nreq, resp, queue, tasks, ndel, last, kstore, q, nq, norm>>

\* No text under clean-up.
NoNorm == [pc |-> "none", raw |-> <<>>, web |-> <<>>, file |-> <<>>,
           webAgain |-> <<>>, fileAgain |-> <<>>]

\* A sequence without its i-th element.
Remove(s, i) == SubSeq(s, 1, i - 1) \o SubSeq(s, i + 1, Len(s))

\* ------------------------------------------------------------- job store
JobIds == 1..Len(jobs)

\* db.query(IngestionJob).filter(IngestionJob.url == key).first()
\* (0 stands for None).
FirstByUrl(key) ==
  IF \E j \in JobIds : jobs[j].url = key
  THEN CHOOSE j \in JobIds : jobs[j].url = key /\ \A k \in JobIds : jobs[k].url = key => j <= k
  ELSE 0

\* db.query(IngestionJob).filter(IngestionJob.id == job_id).first()
FirstById(id) == IF id \in JobIds THEN id ELSE 0

\* A job table without a unique index on the source key.
UniqueKeyFree_NoIndex(key) == TRUE

\* The unique index on the source key: whether a row with this key may be
\* inserted.
UniqueKeyFree(key) == \A j \in JobIds : jobs[j].url # key

\* ------------------------------------------------------------ ingest API
\* A submission: ep the endpoint, key the source key, path the
\* url or the temp file, job the id of the row it inserted, outcome the
\* response, err the exception behind a 500, confId / confStatus the job a
\* duplicate check found and reports.
NoReq == [ep |-> "none", key |-> <<>>, path |-> <<>>, ctype |-> "", pc |-> "done",
          job |-> 0, outcome |-> "none", err |-> "", confId |-> 0, confStatus |-> ""]

\* What ingest_url does when the existence check finds a row: HTTPException
\* 409 carrying the row's id and status; `except HTTPException` rolls back
\* and re-raises it.
UrlDuplicate(r, existing) ==
  [r EXCEPT !.outcome = "conflict409",
            !.confId = existing, !.confStatus = jobs[existing].status]

\* ingest_url, up to the existence check.
ingest_url_check(u) ==
  /\ nreq < MaxReqs
  /\ nreq' = nreq + 1
  /\ LET r == [NoReq EXCEPT !.ep = "url", !.key = u, !.path = u,
                            !.ctype = "web"]
         existing == FirstByUrl(u)
     IN IF existing # 0
        THEN resp' = UrlDuplicate(r, existing) /\ reqs' = reqs
        ELSE resp' = resp /\ reqs' = Append(reqs, [r EXCEPT !.pc = "insert"])
  /\ UNCHANGED <<norm, jobs, tmpdir, queue, tasks, ndel, last, kstore, q, nq>>

\* db.add(new_job); db.commit(); db.refresh(new_job) of a submission: the
\* row is inserted with status PENDING, or the unique index rejects the
\* commit, which raises, and `except Exception` answers 500.
CommitRow(i) ==
  IF UniqueKeyFree(reqs[i].key)
  THEN /\ jobs' = Append(jobs, [url |-> reqs[i].key, status |-> "PENDING"])
       /\ reqs' = [reqs EXCEPT ![i].pc = "dispatch", ![i].job = Len(jobs) + 1]
       /\ resp' = resp
  ELSE /\ jobs' = jobs
       /\ reqs' = Remove(reqs, i)
       /\ resp' = [reqs[i] EXCEPT !.pc = "done", !.outcome = "error500",
                                  !.err = "IntegrityError"]

\* ingest_url: the insert of the new row.
ingest_url_commit(i) ==
  /\ reqs[i].ep = "url" /\ reqs[i].pc = "insert"
  /\ CommitRow(i)
  /\ UNCHANGED <<norm, tmpdir, nreq, queue, tasks, ndel, last, kstore, q, nq>>

\* An error handler that marks the committed row FAILED.
RollbackAfterCommit_Alters(rows, job) == [rows EXCEPT ![job].status = "FAILED"]

\* db.rollback() in `except Exception` when send_task raised: the row was
\* committed before the send, so the rollback undoes nothing.
RollbackAfterCommit(rows, job) == rows

\* A message sent with the id of a row that is not in the table.
UrlMessage_Unsaved(r) ==
  [task |-> "process_url_task", job |-> r.job + 1, ref |-> r.path, ctype |-> "web"]

\* The message ingest_url sends: process_url_task with [job_id, url].
UrlMessage(r) == [task |-> "process_url_task", job |-> r.job, ref |-> r.path, ctype |-> "web"]

\* ingest_url: celery_app.send_task and the 202 response; a send that raises
\* is answered 500 after a rollback that finds nothing to undo.
ingest_url_dispatch(i) ==
  /\ reqs[i].ep = "url" /\ reqs[i].pc = "dispatch"
  /\ reqs' = Remove(reqs, i)
  /\ \/ /\ queue' = queue \cup {UrlMessage(reqs[i])}
        /\ resp' = [reqs[i] EXCEPT !.pc = "done", !.outcome = "accepted202"]
        /\ jobs' = jobs
     \/ /\ queue' = queue
        /\ resp' = [reqs[i] EXCEPT !.pc = "done", !.outcome = "error500", !.err = "SendError"]
        /\ jobs' = RollbackAfterCommit(jobs, reqs[i].job)
  /\ UNCHANGED <<norm, tmpdir, nreq, tasks, ndel, last, kstore, q, nq>>

\* A key made of the file type alone.
basename_TypeOnly(path) == <<"upload", path[3]>>

\* os.path.basename of a temp file path <<dir, name, suffix>>.
basename(path) == <<path[2], path[3]>>

\* What ingest_file does when the existence check finds a row: the
\* HTTPException 409 is raised inside the try block and `except Exception`
\* turns it into a 500 whose detail is the 409's text.
FileDuplicate(r, existing) ==
  [r EXCEPT !.outcome = "error500", !.err = "HTTPException",
            !.confId = existing, !.confStatus = jobs[existing].status]

\* ingest_file, up to the existence check: the content-type test, the temp
\* file (under a random name no file of the directory has) and the query.
ingest_file_check(ct) ==
  /\ nreq < MaxReqs
  /\ nreq' = nreq + 1
  /\ LET r == [NoReq EXCEPT !.ep = "file", !.ctype = ct]
     IN IF ct \notin {PDF, DOCX}
        THEN /\ resp' = [r EXCEPT !.outcome = "bad400"]
             /\ UNCHANGED <<reqs, tmpdir>>
        ELSE \E n \in TmpNames :
               LET suffix == IF ct = PDF THEN ".pdf" ELSE ".docx"
                   path == <<"/tmp", n, suffix>>
                   key == basename(path)
                   existing == FirstByUrl(key)
                   r2 == [r EXCEPT !.key = key, !.path = path]
               IN /\ \A f \in tmpdir : f[2] # n
                  /\ tmpdir' = tmpdir \cup {path}
                  /\ IF existing # 0
                     THEN resp' = FileDuplicate(r2, existing) /\ reqs' = reqs
                     ELSE resp' = resp /\ reqs' = Append(reqs, [r2 EXCEPT !.pc = "insert"])
  /\ UNCHANGED <<norm, jobs, queue, tasks, ndel, last, kstore, q, nq>>

\* ingest_file: the insert of the new row.
ingest_file_commit(i) ==
  /\ reqs[i].ep = "file" /\ reqs[i].pc = "insert"
  /\ CommitRow(i)
  /\ UNCHANGED <<norm, tmpdir, nreq, queue, tasks, ndel, last, kstore, q, nq>>

\* The message ingest_file sends: process_file_task with [job_id, path,
\* content_type].
FileMessage(r) ==
  [task |-> "process_file_task", job |-> r.job, ref |-> r.path, ctype |-> r.ctype]

\* ingest_file: celery_app.send_task and the 202 response; a send that
\* raises is answered 500.
ingest_file_dispatch(i) ==
  /\ reqs[i].ep = "file" /\ reqs[i].pc = "dispatch"
  /\ reqs' = Remove(reqs, i)
  /\ \/ /\ queue' = queue \cup {FileMessage(reqs[i])}
        /\ resp' = [reqs[i] EXCEPT !.pc = "done", !.outcome = "accepted202"]
        /\ jobs' = jobs
     \/ /\ queue' = queue
        /\ resp' = [reqs[i] EXCEPT !.pc = "done", !.outcome = "error500", !.err = "SendError"]
        /\ jobs' = RollbackAfterCommit(jobs, reqs[i].job)
  /\ UNCHANGED <<norm, tmpdir, nreq, tasks, ndel, last, kstore, q, nq>>

\* -------------------------------------------------------- worker: ingest
\* chunk_text: RecursiveCharacterTextSplitter(chunk_size, chunk_overlap) on a
\* text without separators: windows of ChunkSize characters, each starting
\* ChunkSize - ChunkOverlap after the one before; no chunk for an empty text.
RECURSIVE chunk_text(_)
chunk_text(text) ==
  IF Len(text) = 0 THEN <<>>
  ELSE IF Len(text) <= ChunkSize THEN <<text>>
  ELSE <<SubSeq(text, 1, ChunkSize)>>
       \o chunk_text(SubSeq(text, ChunkSize - ChunkOverlap + 1, Len(text)))

\* Chunk ids without the sequence index.
ChunkId_NoIndex(key, i) == <<key, 0>>

\* The id of chunk number i (from 1) of a source: f"{url}_{i}" with i from 0.
ChunkId(key, i) == <<key, i - 1>>

\* Whether collection.add raises because the collection holds one of the ids
\* (Chroma logs such an id and goes on).
AddRejects(store, ids) == FALSE

\* collection.add(ids, documents, metadatas) of Chroma: a record per id the
\* collection does not hold yet; an id it holds keeps its record.
collection_add(store, ids, documents, metadatas) ==
  store \cup {[id |-> ids[i], text |-> documents[i], meta |-> metadatas[i]] :
                i \in {k \in 1..Len(ids) : \A r \in store : r.id # ids[k]}}

\* The ids store_chunks_in_db and store_file_chunks_in_db give the chunks.
ChunkIds(key, chunks) == [i \in 1..Len(chunks) |-> ChunkId(key, i)]

\* store_chunks_in_db(url, chunks): the collection afterwards.
store_chunks_in_db(store, url, chunks) ==
  IF chunks = <<>> THEN store
  ELSE collection_add(store, ChunkIds(url, chunks), chunks,
                      [i \in 1..Len(chunks) |-> [name |-> "source_url", value |-> url]])

\* store_file_chunks_in_db(filename, chunks): the collection afterwards.
store_file_chunks_in_db(store, filename, chunks) ==
  IF chunks = <<>> THEN store
  ELSE collection_add(store, ChunkIds(filename, chunks), chunks,
                      [i \in 1..Len(chunks) |-> [name |-> "source_file", value |-> filename]])

\* --------------------------------------------------------- worker: tasks
\* A task invocation in flight.  pc: "fetch" after the commit of the start
\* status, "store" after the extraction; text / chunks: what the extraction
\* and chunk_text returned.
NewTask(m) ==
  [name |-> m.task, job |-> m.job, ref |-> m.ref, ctype |-> m.ctype,
   pc |-> "fetch", text |-> <<>>, chunks |-> <<>>]

\* How the last task invocation ended.  missing: no row had its job id, and
\* notFound is the job id it printed; result: "returned" or "raised"; err:
\* the exception raised inside the try block; out: the exception that left
\* the task; wroteFailed: the task committed status FAILED; same: the store
\* call found every chunk it was given in the collection already, under the
\* same id and with the same text.
NoTask ==
  [missing |-> FALSE, notFound |-> 0, result |-> "none", err |-> "", out |-> "",
   wroteFailed |-> FALSE, same |-> FALSE]

\* A task that raises when no row has its job id.
MissingJobEnd_Raises(m) ==
  [NoTask EXCEPT !.missing = TRUE, !.notFound = m.job, !.result = "raised",
                 !.out = "LookupError"]

\* How a task ends when no row has its job id: it prints and returns.
MissingJobEnd(m) ==
  [NoTask EXCEPT !.missing = TRUE, !.notFound = m.job, !.result = "returned"]

\* Whether the collection holds every chunk under its id with the same text.
AlreadyStored(store, key, chunks) ==
  /\ chunks # <<>>
  /\ \A i \in 1..Len(chunks) :
       \E r \in store : r.id = ChunkId(key, i) /\ r.text = chunks[i]

\* How a task ends after its last commit, of status COMPLETED.
CompletedEnd(same) == [NoTask EXCEPT !.result = "returned", !.same = same]

\* The status process_url_task writes when it has loaded the job.
UrlStartStatus == "PROCESSING"

\* process_url_task, from delivery to the first commit: the job is loaded by
\* id; without a row the task returns; else status PROCESSING is committed.
process_url_task_start(m) ==
  /\ m \in queue /\ m.task = "process_url_task"
  /\ ndel < MaxDeliveries
  /\ ndel' = ndel + 1
  /\ LET job == FirstById(m.job)
     IN IF job = 0
        THEN /\ last' = MissingJobEnd(m)
             /\ UNCHANGED <<tasks, jobs>>
        ELSE /\ tasks' = Append(tasks, NewTask(m))
             /\ jobs' = [jobs EXCEPT ![job].status = UrlStartStatus]
             /\ last' = last
  /\ UNCHANGED <<norm, tmpdir, reqs, nreq, resp, queue, kstore, q, nq>>

\* How process_url_task ends after its except block committed FAILED:
\* `raise` re-raises the exception it caught.
UrlExceptEnd(err) ==
  [NoTask EXCEPT !.result = "raised", !.err = err, !.out = err, !.wroteFailed = TRUE]

\* How a task ends when the commit of FAILED raises: the commit's exception
\* leaves the except block.
FailedWriteRaises(err) ==
  [NoTask EXCEPT !.result = "raised", !.err = err, !.out = "DBError"]

\* process_url_task's except block for task t, entered with exception err:
\* rollback, reload the job, write FAILED and commit, then re-raise.
process_url_task_except(t, err) ==
  /\ tasks' = Remove(tasks, t)
  /\ \/ /\ jobs' = [jobs EXCEPT ![tasks[t].job].status = "FAILED"]
        /\ last' = UrlExceptEnd(err)
     \/ /\ jobs' = jobs
        /\ last' = FailedWriteRaises(err)

\* Whether process_url_task goes on with the text it fetched (`if not text:
\* raise ValueError`).
UrlTextOK(text) == text # <<>>

\* process_url_task: fetch_and_clean_text(url), the emptiness test and
\* chunk_text(text).  The fetch raises or returns a cleaned text; an
\* exception runs the except block.
process_url_task_fetch(t) ==
  /\ tasks[t].name = "process_url_task" /\ tasks[t].pc = "fetch"
  /\ \/ process_url_task_except(t, "FetchError")
     \/ \E text \in Texts :
          IF UrlTextOK(text)
          THEN /\ tasks' = [tasks EXCEPT ![t].pc = "store", ![t].text = text,
                                         ![t].chunks = chunk_text(text)]
               /\ UNCHANGED <<jobs, last>>
          ELSE process_url_task_except(t, "EmptyContent")
  /\ UNCHANGED <<norm, tmpdir, reqs, nreq, resp, queue, ndel, kstore, q, nq>>

\* process_url_task: store_chunks_in_db(url, chunks), then job.status =
\* "COMPLETED", db.commit() and the return; a store that raises runs the
\* except block.
process_url_task_store(t) ==
  /\ tasks[t].name = "process_url_task" /\ tasks[t].pc = "store"
  /\ \/ /\ process_url_task_except(t, "StorageError")
        /\ kstore' = kstore
     \/ /\ AddRejects(kstore, ChunkIds(tasks[t].ref, tasks[t].chunks))
        /\ process_url_task_except(t, "DuplicateIDError")
        /\ kstore' = kstore
     \/ /\ ~AddRejects(kstore, ChunkIds(tasks[t].ref, tasks[t].chunks))
        /\ kstore' = store_chunks_in_db(kstore, tasks[t].ref, tasks[t].chunks)
        /\ jobs' = [jobs EXCEPT ![tasks[t].job].status = "COMPLETED"]
        /\ tasks' = Remove(tasks, t)
        /\ last' = CompletedEnd(AlreadyStored(kstore, tasks[t].ref, tasks[t].chunks))
  /\ UNCHANGED <<norm, tmpdir, reqs, nreq, resp, queue, ndel, q, nq>>

\* The status process_file_task writes when it has loaded the job.
FileStartStatus == "RUNNING"

\* process_file_task, from delivery to the first commit.
process_file_task_start(m) ==
  /\ m \in queue /\ m.task = "process_file_task"
  /\ ndel < MaxDeliveries
  /\ ndel' = ndel + 1
  /\ LET job == FirstById(m.job)
     IN IF job = 0
        THEN /\ last' = MissingJobEnd(m)
             /\ UNCHANGED <<tasks, jobs>>
        ELSE /\ tasks' = Append(tasks, NewTask(m))
             /\ jobs' = [jobs EXCEPT ![job].status = FileStartStatus]
             /\ last' = last
  /\ UNCHANGED <<norm, tmpdir, reqs, nreq, resp, queue, kstore, q, nq>>

\* How process_file_task ends after its except block committed FAILED: it
\* prints the exception and returns.
FileExceptEnd(err) ==
  [NoTask EXCEPT !.result = "returned", !.err = err, !.wroteFailed = TRUE]

\* An except block that ends the task without writing FAILED.
process_file_task_except_NoWrite(t, err) ==
  /\ tasks' = Remove(tasks, t)
  /\ jobs' = jobs
  /\ last' = FileExceptEnd(err)

\* process_file_task's except block for task t, entered with exception err:
\* write FAILED and commit, print.
process_file_task_except(t, err) ==
  /\ tasks' = Remove(tasks, t)
  /\ \/ /\ jobs' = [jobs EXCEPT ![tasks[t].job].status = "FAILED"]
        /\ last' = FileExceptEnd(err)
     \/ /\ jobs' = jobs
        /\ last' = FailedWriteRaises(err)

\* Whether process_file_task goes on with the text it extracted (it has no
\* emptiness test).
FileTextOK(text) == TRUE

\* process_file_task: fetch_and_clean_file(file_path, content_type) and
\* chunk_text(text).  The extraction raises or returns a cleaned text.
process_file_task_fetch(t) ==
  /\ tasks[t].name = "process_file_task" /\ tasks[t].pc = "fetch"
  /\ \/ process_file_task_except(t, "ExtractError")
     \/ \E text \in Texts :
          IF FileTextOK(text)
          THEN /\ tasks' = [tasks EXCEPT ![t].pc = "store", ![t].text = text,
                                         ![t].chunks = chunk_text(text)]
               /\ UNCHANGED <<jobs, last>>
          ELSE process_file_task_except(t, "EmptyContent")
  /\ UNCHANGED <<norm, tmpdir, reqs, nreq, resp, queue, ndel, kstore, q, nq>>

\* process_file_task: store_file_chunks_in_db(job.url, chunks), then
\* job.status = "COMPLETED" and db.commit(); without chunks the collection
\* is not called; a store that raises runs the except block.
process_file_task_store(t) ==
  /\ tasks[t].name = "process_file_task" /\ tasks[t].pc = "store"
  /\ LET filename == jobs[tasks[t].job].url
     IN \/ /\ tasks[t].chunks # <<>>
           /\ process_file_task_except(t, "StorageError")
           /\ kstore' = kstore
        \/ /\ tasks[t].chunks # <<>>
           /\ AddRejects(kstore, ChunkIds(filename, tasks[t].chunks))
           /\ process_file_task_except(t, "DuplicateIDError")
           /\ kstore' = kstore
        \/ /\ tasks[t].chunks # <<>> => ~AddRejects(kstore, ChunkIds(filename, tasks[t].chunks))
           /\ kstore' = store_file_chunks_in_db(kstore, filename, tasks[t].chunks)
           /\ jobs' = [jobs EXCEPT ![tasks[t].job].status = "COMPLETED"]
           /\ tasks' = Remove(tasks, t)
           /\ last' = CompletedEnd(AlreadyStored(kstore, filename, tasks[t].chunks))
  /\ UNCHANGED <<norm, tmpdir, reqs, nreq, resp, queue, ndel, q, nq>>

\* -------------------------------------------------------- query pipeline
IdleQuery ==
  [pc |-> "idle", raw |-> "", improved |-> "", rewriteFailed |-> FALSE,
   searched |-> "", retrieved |-> {}, question |-> "", outcome |-> "none", answer |-> "", sources |-> {},
   genFailed |-> FALSE, nRewrite |-> 0, nRetrieve |-> 0, nGenerate |-> 0]

\* query (main.py) calls query_rag_engine(request.query).
query_start(text) ==
  /\ q.pc \in {"idle", "done"}
  /\ nq < MaxQueries
  /\ nq' = nq + 1
  /\ q' = [IdleQuery EXCEPT !.pc = "rewrite", !.raw = text]
  /\ UNCHANGED <<norm, jobs, tmpdir, reqs, nreq, resp, queue, tasks, ndel, last, kstore>>

\* A fallback that drops the query text.
RewriteFallback_Empty(raw) == ""

\* The query text used when the rewrite call raised.
RewriteFallback(raw) == raw

\* Step 1 of query_rag_engine: the rewrite call returns a text, or raises
\* and the raw query is used.
query_rewrite ==
  /\ q.pc = "rewrite"
  /\ \/ \E text \in Rewrites :
          q' = [q EXCEPT !.pc = "retrieve", !.improved = text, !.nRewrite = @ + 1]
     \/ q' = [q EXCEPT !.pc = "retrieve", !.improved = RewriteFallback(q.raw),
                       !.rewriteFailed = TRUE, !.nRewrite = @ + 1]
  /\ UNCHANGED <<norm, jobs, tmpdir, reqs, nreq, resp, queue, tasks, ndel, last, kstore, nq>>

\* collection.query(query_texts, n_results): the possible results, each the
\* n_results nearest records, or all records when the collection holds fewer.
collection_query(store, n) ==
  {hits \in SUBSET store :
     Cardinality(hits) = IF Cardinality(store) < n THEN Cardinality(store) ELSE n}

\* A retrieval that takes the records it returns out of the collection.
StoreAfterQuery_Consumes(store, hits) == store \ hits

\* The collection after collection.query: the call only reads.
StoreAfterQuery(store, hits) == store

\* A pipeline that calls the answer stage whatever was retrieved.
HasContext_Always(retrieved) == TRUE

\* What query_rag_engine does with the retrieved set: TRUE when it goes on
\* to the answer call.
HasContext(retrieved) == retrieved # {}

\* Step 2 of query_rag_engine: retrieval with the improved query; without a
\* retrieved chunk the fixed answer is returned with no sources.
query_retrieve ==
  /\ q.pc = "retrieve"
  /\ \E hits \in collection_query(kstore, NResults) :
       /\ q' = IF HasContext(hits)
               THEN [q EXCEPT !.pc = "generate", !.retrieved = hits, !.nRetrieve = @ + 1,
                              !.searched = q.improved, !.question = q.improved]
               ELSE [q EXCEPT !.pc = "done", !.retrieved = hits, !.nRetrieve = @ + 1,
                              !.searched = q.improved, !.outcome = "answer", !.answer = NotFoundAnswer, !.sources = {}]
       /\ kstore' = StoreAfterQuery(kstore, hits)
  /\ UNCHANGED <<norm, jobs, tmpdir, reqs, nreq, resp, queue, tasks, ndel, last, nq>>

\* meta.get('source_url', '')
SourceOf(meta) == IF meta.name = "source_url" THEN meta.value ELSE <<>>

\* An answer stage that makes its call again when it raised.
GenerateFailed_Retried(qq) == [qq EXCEPT !.genFailed = TRUE, !.nGenerate = @ + 1]

\* An answer stage that answers with the fixed text when its call raised.
GenerateFailed_Swallowed(qq) ==
  [qq EXCEPT !.pc = "done", !.outcome = "answer", !.answer = NotFoundAnswer,
             !.genFailed = TRUE, !.nGenerate = @ + 1]

\* How a query ends when the answer call raised: query_rag_engine prints
\* and re-raises, and query (main.py) answers 500; nothing is returned.
GenerateFailed(qq) ==
  [qq EXCEPT !.pc = "done", !.outcome = "error500", !.genFailed = TRUE,
             !.nGenerate = @ + 1]

\* Step 3 of query_rag_engine: the answer call on the prompt built from the
\* retrieved chunks and the improved query; its failure is re-raised and
\* query (main.py) answers 500.
query_generate ==
  /\ q.pc = "generate"
  /\ \/ \E a \in Answers :
          q' = [q EXCEPT !.pc = "done", !.outcome = "answer", !.answer = a,
                         !.sources = {SourceOf(r.meta) : r \in q.retrieved},
                         !.nGenerate = @ + 1]
     \/ q' = GenerateFailed(q)
  /\ UNCHANGED <<norm, jobs, tmpdir, reqs, nreq, resp, queue, tasks, ndel, last, kstore, nq>>

\* ------------------------------------------------------- specifications
Init ==
  /\ jobs = <<>>
  /\ tmpdir = {}
  /\ reqs = <<>>
  /\ nreq = 0
  /\ resp = NoReq
  /\ queue = {}
  /\ tasks = <<>>
  /\ ndel = 0
  /\ last = NoTask
  /\ kstore = {}
  /\ q = IdleQuery
  /\ nq = 0
  /\ norm = NoNorm

\* The steps of the ingestion API and of the worker.
Next ==
  \/ \E u \in Urls : ingest_url_check(u)
  \/ \E i \in 1..Len(reqs) : ingest_url_commit(i)
  \/ \E i \in 1..Len(reqs) : ingest_url_dispatch(i)
  \/ \E ct \in ContentTypes : ingest_file_check(ct)
  \/ \E i \in 1..Len(reqs) : ingest_file_commit(i)
  \/ \E i \in 1..Len(reqs) : ingest_file_dispatch(i)
  \/ \E m \in queue : process_url_task_start(m)
  \/ \E t \in 1..Len(tasks) : process_url_task_fetch(t)
  \/ \E t \in 1..Len(tasks) : process_url_task_store(t)
  \/ \E m \in queue : process_file_task_start(m)
  \/ \E t \in 1..Len(tasks) : process_file_task_fetch(t)
  \/ \E t \in 1..Len(tasks) : process_file_task_store(t)

Spec == Init /\ [][Next]_vars

\* The messages a broker can hold for a job id without a row.
StaleMessages ==
  {[task |-> "process_url_task", job |-> StaleId, ref |-> <<"http://a">>, ctype |-> "web"],
   [task |-> "process_file_task", job |-> StaleId, ref |-> <<"/tmp", "gone", ".pdf">>,
    ctype |-> PDF]}

\* The file of the upload the workers start with.
WorkerFile == <<"/tmp", "tmpA", ".pdf">>

\* The workers' start: a url and a file were submitted and accepted (rows 1
\* and 2, PENDING, and their messages), and the broker also holds a message
\* of each task for a job id that has no row.
InitWorker ==
  /\ jobs = <<[url |-> <<"http://a">>, status |-> "PENDING"],
              [url |-> basename(WorkerFile), status |-> "PENDING"]>>
  /\ tmpdir = {WorkerFile}
  /\ reqs = <<>>
  /\ nreq = 0
  /\ resp = NoReq
  /\ queue = StaleMessages \cup
             {UrlMessage([job |-> 1, path |-> <<"http://a">>]),
              FileMessage([job |-> 2, path |-> WorkerFile, ctype |-> PDF])}
  /\ tasks = <<>>
  /\ ndel = 0
  /\ last = NoTask
  /\ kstore = {}
  /\ q = IdleQuery
  /\ nq = 0
  /\ norm = NoNorm

\* The steps of the worker.
WorkerNext ==
  \/ \E m \in queue : process_url_task_start(m)
  \/ \E t \in 1..Len(tasks) : process_url_task_fetch(t)
  \/ \E t \in 1..Len(tasks) : process_url_task_store(t)
  \/ \E m \in queue : process_file_task_start(m)
  \/ \E t \in 1..Len(tasks) : process_file_task_fetch(t)
  \/ \E t \in 1..Len(tasks) : process_file_task_store(t)

SpecWorker == InitWorker /\ [][WorkerNext]_vars

\* The file an upload was saved as, in the states the queries start from.
QueryFile == <<"/tmp", "tmpA", ".pdf">>

\* The system after the ingestion of two urls and one file has ended, each
\* with one of the texts: the rows and the collection the tasks leave.
InitQuery ==
  \E ta \in Texts, tb \in Texts, tf \in Texts :
    /\ jobs = <<[url |-> <<"http://a">>,
                 status |-> IF UrlTextOK(ta) THEN "COMPLETED" ELSE "FAILED"],
                [url |-> <<"http://b">>,
                 status |-> IF UrlTextOK(tb) THEN "COMPLETED" ELSE "FAILED"],
                [url |-> basename(QueryFile), status |-> "COMPLETED"]>>
    /\ tmpdir = {QueryFile}
    /\ reqs = <<>>
    /\ nreq = 0
    /\ resp = NoReq
    /\ queue = {}
    /\ tasks = <<>>
    /\ ndel = 0
    /\ last = NoTask
    /\ kstore = store_file_chunks_in_db(
                  store_chunks_in_db(
                    store_chunks_in_db({}, <<"http://a">>, chunk_text(ta)),
                    <<"http://b">>, chunk_text(tb)),
                  basename(QueryFile), chunk_text(tf))
    /\ q = IdleQuery
    /\ nq = 0
    /\ norm = NoNorm

\* The steps of the query endpoint.
QueryNext ==
  \/ \E text \in Queries : query_start(text)
  \/ query_rewrite
  \/ query_retrieve
  \/ query_generate

SpecQuery == InitQuery /\ [][QueryNext]_vars

\* The file an earlier upload was saved as.
RestartFile == <<"/tmp", "tmpA", ".pdf">>

\* The API after a restart: the job table, which the program never deletes
\* from, still holds the row of an earlier upload in a status a task left
\* it in, while the temp directory, which NamedTemporaryFile(delete=False)
\* fills and the program does not own, is empty again.
InitRestart ==
  \E s \in {"PENDING", FileStartStatus, "COMPLETED", "FAILED"} :
    /\ jobs = <<[url |-> basename(RestartFile), status |-> s]>>
    /\ tmpdir = {}
    /\ reqs = <<>>
    /\ nreq = 0
    /\ resp = NoReq
    /\ queue = {}
    /\ tasks = <<>>
    /\ ndel = 0
    /\ last = NoTask
    /\ kstore = {}
    /\ q = IdleQuery
    /\ nq = 0
    /\ norm = NoNorm

\* The steps of the ingestion API.
ApiNext ==
  \/ \E u \in Urls : ingest_url_check(u)
  \/ \E i \in 1..Len(reqs) : ingest_url_commit(i)
  \/ \E i \in 1..Len(reqs) : ingest_url_dispatch(i)
  \/ \E ct \in ContentTypes : ingest_file_check(ct)
  \/ \E i \in 1..Len(reqs) : ingest_file_commit(i)
  \/ \E i \in 1..Len(reqs) : ingest_file_dispatch(i)

SpecRestart == InitRestart /\ [][ApiNext]_vars

\* The rows of a url and of an upload that were accepted.
LiveRows ==
  <<[url |-> <<"http://a">>, status |-> "PENDING"],
    [url |-> basename(WorkerFile), status |-> "PENDING"]>>

\* The workers' start under at-least-once delivery: the two rows and the
\* message of each.
InitLive ==
  /\ jobs = LiveRows
  /\ tmpdir = {WorkerFile}
  /\ reqs = <<>>
  /\ nreq = 0
  /\ resp = NoReq
  /\ queue = {UrlMessage([job |-> 1, path |-> <<"http://a">>]),
              FileMessage([job |-> 2, path |-> WorkerFile, ctype |-> PDF])}
  /\ tasks = <<>>
  /\ ndel = 0
  /\ last = NoTask
  /\ kstore = {}
  /\ q = IdleQuery
  /\ nq = 0
  /\ norm = NoNorm

\* A message the broker has not delivered yet: its job is still PENDING.
Undelivered(m) == m.job \in JobIds /\ jobs[m.job].status = "PENDING"

\* At-least-once delivery within the bound on deliveries: a message is
\* delivered (again) only when the bound leaves a delivery for every other
\* message that had none.
DeliveryRoom(m) ==
  ndel + Cardinality({x \in queue \ {m} : Undelivered(x)}) < MaxDeliveries

\* The job-store writes of the step succeed: no commit raises.
WritesSucceed == last'.out # "DBError"

\* The steps of the worker when every message is delivered and the commits
\* succeed.
LiveNext ==
  \/ \E m \in queue : DeliveryRoom(m) /\ process_url_task_start(m)
  \/ \E t \in 1..Len(tasks) : process_url_task_fetch(t) /\ WritesSucceed
  \/ \E t \in 1..Len(tasks) : process_url_task_store(t) /\ WritesSucceed
  \/ \E m \in queue : DeliveryRoom(m) /\ process_file_task_start(m)
  \/ \E t \in 1..Len(tasks) : process_file_task_fetch(t) /\ WritesSucceed
  \/ \E t \in 1..Len(tasks) : process_file_task_store(t) /\ WritesSucceed

\* The broker delivers a message that had no delivery.
FirstDelivery ==
  \E m \in queue :
    /\ Undelivered(m)
    /\ process_url_task_start(m) \/ process_file_task_start(m)

\* A worker takes the next step of a task it runs.
TaskStep ==
  \E t \in 1..Len(tasks) :
    /\ \/ process_url_task_fetch(t) \/ process_url_task_store(t)
       \/ process_file_task_fetch(t) \/ process_file_task_store(t)
    /\ WritesSucceed

\* The broker delivers every message at least once and a worker runs every
\* task it was given to its end.
SpecLive ==
  InitLive /\ [][LiveNext]_vars /\ WF_vars(FirstDelivery) /\ WF_vars(TaskStep)

\* ------------------------------------------------- whitespace clean-up
\* The characters of a raw text: a letter, a space, a tab and a line break.
Chars == {"a", " ", "\t", "\n"}

\* The raw texts an extraction can return: the texts of up to MaxRawLen
\* characters.
RawTexts == UNION {[1..n -> Chars] : n \in 0..MaxRawLen}

\* str.splitlines(): the lines of a text, without their line breaks; a
\* line break at the end opens no further line.
RECURSIVE splitlines(_)
splitlines(text) ==
  IF text = <<>> THEN <<>>
  ELSE IF \E i \in 1..Len(text) : text[i] = "\n"
  THEN LET n == CHOOSE i \in 1..Len(text) :
                  text[i] = "\n" /\ \A k \in 1..(i - 1) : text[k] # "\n"
       IN <<SubSeq(text, 1, n - 1)>> \o splitlines(SubSeq(text, n + 1, Len(text)))
  ELSE <<text>>

\* str.strip(): the text without the whitespace at its two ends.
RECURSIVE strip(_)
strip(s) ==
  IF s = <<>> THEN s
  ELSE IF s[1] \in {" ", "\t", "\n"} THEN strip(Tail(s))
  ELSE IF s[Len(s)] \in {" ", "\t", "\n"} THEN strip(SubSeq(s, 1, Len(s) - 1))
  ELSE s

\* line.split("  "): the pieces between the double spaces, found from the
\* left; a text without one is its only piece.
RECURSIVE split(_)
split(line) ==
  IF \E i \in 1..(Len(line) - 1) : line[i] = " " /\ line[i + 1] = " "
  THEN LET n == CHOOSE i \in 1..(Len(line) - 1) :
                  /\ line[i] = " " /\ line[i + 1] = " "
                  /\ \A k \in 1..(i - 1) : ~(line[k] = " " /\ line[k + 1] = " ")
       IN <<SubSeq(line, 1, n - 1)>> \o split(SubSeq(line, n + 2, Len(line)))
  ELSE <<line>>

\* '\n'.join(parts)
RECURSIVE join(_)
join(parts) ==
  IF parts = <<>> THEN <<>>
  ELSE IF Len(parts) = 1 THEN parts[1]
  ELSE parts[1] \o <<"\n">> \o join(Tail(parts))

\* (phrase.strip() for line in lines for phrase in line.split("  ")) for
\* the stripped lines of a text.
RECURSIVE phrases(_)
phrases(lines) ==
  IF lines = <<>> THEN <<>>
  ELSE LET pieces == split(strip(lines[1]))
       IN [i \in 1..Len(pieces) |-> strip(pieces[i])] \o phrases(Tail(lines))

\* `if chunk`: a phrase that is kept.
Kept(chunk) == chunk # <<>>

\* A clean-up that keeps the empty pieces and puts a space, not a line
\* break, after the first piece.
CleanedText_SpaceJoined(text) ==
  LET lines == splitlines(text)
      pieces == phrases(lines)
  IN IF Len(pieces) < 2 THEN join(pieces)
     ELSE pieces[1] \o <<" ">> \o join(Tail(pieces))

\* The whitespace clean-up of fetch_and_clean_text on the page text.
CleanedText(text) == join(SelectSeq(phrases(splitlines(text)), Kept))

\* The whitespace clean-up of fetch_and_clean_file on the extracted text.
CleanedFileText(text) == join(SelectSeq(phrases(splitlines(text)), Kept))

\* fetch_and_clean_text cleans the raw text.
fetch_and_clean_text(text) ==
  /\ norm.pc = "raw" /\ norm.raw = text
  /\ norm' = [norm EXCEPT !.pc = "web", !.web = CleanedText(text)]
  /\ UNCHANGED <<jobs, tmpdir, reqs, nreq, resp, queue, tasks, ndel, last, kstore, q, nq>>

\* fetch_and_clean_file cleans the same raw text.
fetch_and_clean_file(text) ==
  /\ norm.pc = "web" /\ norm.raw = text
  /\ norm' = [norm EXCEPT !.pc = "file", !.file = CleanedFileText(text)]
  /\ UNCHANGED <<jobs, tmpdir, reqs, nreq, resp, queue, tasks, ndel, last, kstore, q, nq>>

\* Each clean-up is run again, on its own result.
clean_again ==
  /\ norm.pc = "file"
  /\ norm' = [norm EXCEPT !.pc = "done", !.webAgain = CleanedText(norm.web),
                          !.fileAgain = CleanedFileText(norm.file)]
  /\ UNCHANGED <<jobs, tmpdir, reqs, nreq, resp, queue, tasks, ndel, last, kstore, q, nq>>

\* A raw text to clean, nothing else going on.
InitClean ==
  /\ jobs = <<>>
  /\ tmpdir = {}
  /\ reqs = <<>>
  /\ nreq = 0
  /\ resp = NoReq
  /\ queue = {}
  /\ tasks = <<>>
  /\ ndel = 0
  /\ last = NoTask
  /\ kstore = {}
  /\ q = IdleQuery
  /\ nq = 0
  /\ \E text \in RawTexts : norm = [NoNorm EXCEPT !.pc = "raw", !.raw = text]

\* The steps of the clean-up.
CleanNext ==
  \/ \E text \in RawTexts : fetch_and_clean_text(text)
  \/ \E text \in RawTexts : fetch_and_clean_file(text)
  \/ clean_again

SpecClean == InitClean /\ [][CleanNext]_vars

\* ================================================================ claims
\* The statuses of the job lifecycle.
Statuses == {"PENDING", "PROCESSING", "COMPLETED", "FAILED"}

\* A step in which a submission arrives and its existence check runs, and
\* the submission: in flight when the check found no row, else answered.
CheckStep == nreq' = nreq + 1
Submitted == IF Len(reqs') > Len(reqs) THEN reqs'[Len(reqs')] ELSE resp'

\* A step in which task invocation t ends.
TaskEnds(t) == t \in 1..Len(tasks) /\ tasks' = Remove(tasks, t)

\* C1: in every reachable state the job table holds at most one row per
\* source key, whatever the interleaving of the submissions.
C1_OneJobPerKey ==
  \A j \in JobIds : \A k \in JobIds : jobs[j].url = jobs[k].url => j = k

\* C1 witness: two submissions of one key both passed the existence check
\* before either insert; the second insert was rejected and one row exists.
C1_Witness ==
  /\ resp.outcome = "error500" /\ resp.err = "IntegrityError"
  /\ \E j \in JobIds : jobs[j].url = resp.key

\* C2: a submission whose source key already has a job row (in any status)
\* is answered with the conflict that carries that row's id and status; it
\* inserts no row, sends no message and changes no row.
C2_DuplicateRejected ==
  [][(CheckStep /\ Submitted.ep \in {"url", "file"} /\ Submitted.key # <<>>
        /\ FirstByUrl(Submitted.key) # 0)
     => /\ reqs' = reqs
        /\ resp'.outcome = "conflict409"
        /\ resp'.confId = FirstByUrl(resp'.key)
        /\ resp'.confStatus = jobs[resp'.confId].status
        /\ jobs' = jobs
        /\ queue' = queue]_vars

\* C3: a job's status only moves forward: it never returns to PENDING, and
\* once COMPLETED or FAILED no later delivery changes it.
C3_ForwardOnly ==
  [][\A j \in JobIds :
       /\ jobs[j].status # "PENDING" => jobs'[j].status # "PENDING"
       /\ jobs[j].status \in {"COMPLETED", "FAILED"} => jobs'[j].status = jobs[j].status]_vars

\* C4: the status of every job is one of PENDING, PROCESSING, COMPLETED,
\* FAILED.
C4_StatusEnum == \A j \in JobIds : jobs[j].status \in Statuses

\* C5: a task whose extraction yields empty text ends with the job FAILED;
\* no processing pass that produced zero chunks leaves the job COMPLETED
\* (the commit of FAILED succeeding).
C5_EmptyContentFails ==
  [][\A t \in 1..Len(tasks) :
       (TaskEnds(t) /\ tasks[t].chunks = <<>> /\ last'.out # "DBError")
       => jobs'[tasks[t].job].status = "FAILED"]_vars

\* C6: a task in which extraction, chunking or storage failed commits status
\* FAILED on its job and ends by raising, for both tasks (the commit of
\* FAILED succeeding).
C6_FailureRecordedAndRaised ==
  [][\A t \in 1..Len(tasks) :
       (TaskEnds(t) /\ last'.err # "" /\ last'.out # "DBError")
       => /\ jobs'[tasks[t].job].status = "FAILED"
          /\ last'.result = "raised"]_vars

\* C7: a task delivered with a job id that has no row returns without an
\* error and changes neither the job table nor the collection; no invocation
\* goes on to the extraction without a row.
C7_MissingJobNoOp ==
  [][ndel' = ndel + 1
     => /\ \A t \in 1..Len(tasks') : tasks'[t].job \in JobIds
        /\ tasks' = tasks
           => /\ last'.missing /\ last'.notFound \notin JobIds
              /\ last'.result = "returned" /\ last'.out = ""
              /\ jobs' = jobs
              /\ kstore' = kstore]_vars

\* C7 witness: a task for a job id without a row was delivered and returned.
C7_Witness ==
  /\ ndel > 0
  /\ last.missing /\ last.notFound = StaleId /\ last.result = "returned"

\* The records of the collection that belong to a source key.
KeyRecords(store, key) == {r \in store : r.id[1] = key}

\* A step in which task t ends after its store call returned.
StoreEnds(t) == TaskEnds(t) /\ tasks[t].pc = "store" /\ last'.err = ""

\* C8: a store call leaves one record per chunk under the ids
\* <<source key, 0>> .. <<source key, n - 1>> and no two records with one
\* id; on a first run the records hold the chunks' texts, and on a run with
\* the chunks the collection already holds the collection stays as it is
\* and the task does not fail on the ids.
C8_IdempotentStore ==
  [][/\ \A t \in 1..Len(tasks) :
          StoreEnds(t) =>
            LET key == jobs[tasks[t].job].url
                c == tasks[t].chunks
            IN /\ \A i \in 1..Len(c) : \E r \in kstore' : r.id = <<key, i - 1>>
               /\ \A r1 \in kstore' : \A r2 \in kstore' : r1.id = r2.id => r1 = r2
               /\ KeyRecords(kstore, key) = {}
                  => /\ Cardinality(KeyRecords(kstore', key)) = Len(c)
                     /\ \A i \in 1..Len(c) :
                          \E r \in kstore' : r.id = <<key, i - 1>> /\ r.text = c[i]
               /\ (\A i \in 1..Len(c) :
                     \E r \in kstore : r.id = <<key, i - 1>> /\ r.text = c[i])
                  => kstore' = kstore
      /\ last'.err # "DuplicateIDError"]_vars

\* C8 witness: a second run of a job found every chunk in the collection
\* already and completed.
C8_Witness ==
  /\ ndel = 2 /\ Len(jobs) = 1
  /\ last.same /\ last.result = "returned"
  /\ jobs[1].status = "COMPLETED"

\* C9: a query whose retrieval returned no match ends with exactly the fixed
\* not-found answer and no sources, and the answer call is never made,
\* whether the rewrite succeeded or fell back.
C9_NotFoundShortCircuit ==
  (q.nRetrieve = 1 /\ q.retrieved = {})
  => /\ q.pc = "done" /\ q.outcome = "answer"
     /\ q.answer = NotFoundAnswer
     /\ q.sources = {}
     /\ q.nGenerate = 0

\* C9 witness: the rewrite fell back, the retrieval on the empty collection
\* returned nothing and the query ended.
C9_Witness ==
  /\ q.pc = "done" /\ q.nRetrieve = 1 /\ q.retrieved = {}
  /\ q.rewriteFailed
  /\ kstore = {}

\* C10: when the rewrite call fails the query goes on: the retrieval and the
\* question of the answer prompt use the raw query text, and the only error
\* a query can end with is the one of the answer call.
C10_RewriteFallback ==
  q.rewriteFailed
  => /\ q.pc # "rewrite"
     /\ q.improved = q.raw
     /\ q.nRetrieve = 1 => q.searched = q.raw
     /\ q.pc \in {"generate", "done"} /\ q.retrieved # {} => q.question = q.raw
     /\ q.outcome = "error500" => q.nGenerate = 1

\* C10 witness: the rewrite failed and the query ended with a generated
\* answer on retrieved chunks.
C10_Witness ==
  /\ q.rewriteFailed /\ q.pc = "done"
  /\ q.outcome = "answer" /\ q.retrieved # {} /\ q.nGenerate = 1

\* C11: when the answer call fails on a non-empty retrieved set the query
\* ends with an error for the caller and no answer or sources, and the
\* answer call was made once.
C11_GenerationFailurePropagates ==
  q.genFailed
  => /\ q.pc = "done" /\ q.outcome = "error500"
     /\ q.answer = "" /\ q.sources = {}
     /\ q.retrieved # {}
     /\ q.nGenerate = 1

\* C11 witness: a query retrieved chunks, its answer call failed and the
\* query ended.
C11_Witness ==
  /\ q.genFailed /\ q.pc = "done" /\ q.retrieved # {}
  /\ q.nRetrieve = 1 /\ q.nGenerate = 1

\* The source key of the job a record of the collection came from.
OriginOf(r) == r.id[1]

\* C12: the sources of a query answered from retrieved chunks are exactly
\* the source keys of the jobs those chunks came from, for url and file
\* chunks alike.
C12_SourcesAreOrigins ==
  (q.pc = "done" /\ q.outcome = "answer" /\ q.retrieved # {})
  => q.sources = {OriginOf(r) : r \in q.retrieved}

\* A step in which the send of submission i fails and is answered 500.
DispatchFails(i) ==
  /\ i \in 1..Len(reqs) /\ reqs[i].pc = "dispatch"
  /\ reqs' = Remove(reqs, i)
  /\ resp'.err = "SendError"

\* A job without a message: its row is PENDING, the broker holds no message
\* for it and no submission is about to send one.
Undispatched(rows, msgs, inflight, j) ==
  /\ j \in 1..Len(rows) /\ rows[j].status = "PENDING"
  /\ \A m \in msgs : m.job # j
  /\ \A i \in 1..Len(inflight) : inflight[i].job # j

\* C13: a failed send leaves the committed row in the table, PENDING and
\* without a message, and such a row stays as it is in every later step (no
\* task is ever delivered for it).
C13_FailedDispatchStaysPending ==
  [][/\ \A i \in 1..Len(reqs) :
          DispatchFails(i) => /\ jobs' = jobs
                              /\ Undispatched(jobs', queue', reqs', reqs[i].job)
     /\ \A j \in JobIds :
          Undispatched(jobs, queue, reqs, j)
          => /\ Undispatched(jobs', queue', reqs', j)
             /\ jobs'[j] = jobs[j]
             /\ \A t \in 1..Len(tasks') : tasks'[t].job # j]_vars

\* C13 witness: the send of a submission failed, other work went on (a task
\* of another job was delivered), and the row is still PENDING with no
\* message.
C13_Witness ==
  /\ resp.err = "SendError"
  /\ Undispatched(jobs, queue, reqs, resp.job)
  /\ ndel > 0

\* The task an endpoint's submissions are processed by.
TaskOf(ep) == IF ep = "url" THEN "process_url_task" ELSE "process_file_task"

\* A step in which submission i hands its task to the broker and is
\* answered 202.
DispatchSends(i) ==
  /\ i \in 1..Len(reqs) /\ reqs[i].pc = "dispatch"
  /\ reqs' = Remove(reqs, i)
  /\ resp'.outcome = "accepted202"

\* C14: an accepted submission sends its message when its row is committed
\* with status PENDING, and sends exactly one message, of its endpoint's
\* task, for that row; so every message of the broker and every task a
\* worker runs is for a committed row.
C14_CommitBeforeDispatch ==
  [][/\ \A i \in 1..Len(reqs) :
          DispatchSends(i) =>
            LET j == reqs[i].job
            IN /\ j \in JobIds /\ jobs[j].status = "PENDING"
               /\ jobs[j].url = reqs[i].key
               /\ \A m \in queue : m.job # j
               /\ \E m \in queue' :
                    /\ queue' = queue \cup {m}
                    /\ m.job = j /\ m.task = TaskOf(reqs[i].ep)
     /\ \A m \in queue' : m.job \in 1..Len(jobs')
     /\ \A t \in 1..Len(tasks') : tasks'[t].job \in 1..Len(jobs')
     /\ last'.missing = FALSE]_vars

\* C14 witness: an upload was accepted and a worker is running its task.
C14_Witness ==
  /\ resp.outcome = "accepted202" /\ resp.ep = "file"
  /\ \E t \in 1..Len(tasks) :
       tasks[t].job = resp.job /\ tasks[t].name = "process_file_task"

\* C15: when a processing step of a task fails and the commit of status
\* FAILED fails too, the task still ends by raising the processing error.
C15_OriginalErrorReachesDispatcher ==
  [][\A t \in 1..Len(tasks) :
       (TaskEnds(t) /\ last'.err # "" /\ ~last'.wroteFailed)
       => /\ last'.result = "raised"
          /\ last'.out = last'.err]_vars

\* C16: a query makes the rewrite, retrieval and answer calls in this
\* order and each at most once: the retrieval only once the rewrite call
\* has returned or failed, the answer call only after a retrieval that
\* returned chunks; a query is in a stage only when the stages before it
\* were called.
C16_CallOrder ==
  /\ q.nRewrite \in {0, 1} /\ q.nRetrieve \in {0, 1} /\ q.nGenerate \in {0, 1}
  /\ q.nRetrieve = 1 => q.nRewrite = 1
  /\ q.nGenerate = 1 => (q.nRetrieve = 1 /\ q.retrieved # {})
  /\ q.pc = "rewrite" => (q.nRewrite = 0 /\ q.nRetrieve = 0 /\ q.nGenerate = 0)
  /\ q.pc = "retrieve" => (q.nRewrite = 1 /\ q.nRetrieve = 0 /\ q.nGenerate = 0)
  /\ q.pc = "generate" => (q.nRewrite = 1 /\ q.nRetrieve = 1 /\ q.nGenerate = 0)

\* C16 witness: a query ended after one call of each stage, the answer
\* call having failed.
C16_Witness ==
  /\ q.pc = "done" /\ q.outcome = "error500"
  /\ q.nRewrite = 1 /\ q.nRetrieve = 1 /\ q.nGenerate = 1
  /\ ~q.rewriteFailed

\* C17: no step of a query changes the job table or the collection,
\* whatever the query's outcome.
C17_QueryReadsOnly ==
  [][q' # q => (jobs' = jobs /\ kstore' = kstore)]_vars

\* C17 witness: a query on a collection with records ended with a generated
\* answer.
C17_Witness ==
  /\ q.pc = "done" /\ q.outcome = "answer" /\ q.nGenerate = 1
  /\ kstore # {} /\ q.retrieved \subseteq kstore

\* C18: the whitespace clean-up is idempotent: run on its own result it
\* returns that result, for every raw text; and the clean-up of the file
\* extraction gives the same result as that of the web extraction.
C18_CleanIdempotent ==
  norm.pc = "done"
  => /\ norm.webAgain = norm.web
     /\ norm.fileAgain = norm.file
     /\ norm.file = norm.web

\* C18 witness: a text with a run of three spaces (split into a piece with
\* a leading space) was cleaned to two lines, and cleaned again.
C18_Witness ==
  /\ norm.pc = "done"
  /\ norm.raw = <<"a", " ", " ", " ", "a">>
  /\ norm.web = <<"a", "\n", "a">>

\* The job has left the lifecycle's working states.
Terminal(j) == jobs[j].status \in {"COMPLETED", "FAILED"}

\* C19: a task that ends for an existing job, its commits succeeding, leaves
\* the job COMPLETED or FAILED; and with every message delivered and every
\* task run to its end, each dispatched job becomes COMPLETED or FAILED and
\* in the end stays so.
C19_EveryJobFinishes ==
  /\ [][\A t \in 1..Len(tasks) :
          TaskEnds(t) => jobs'[tasks[t].job].status \in {"COMPLETED", "FAILED"}]_vars
  /\ \A j \in 1..Len(LiveRows) :
       (\E m \in queue : m.job = j) ~> Terminal(j)
  /\ <>[](\A j \in 1..Len(LiveRows) : Terminal(j))

\* C19 witness: both tasks were delivered and ended, the url job FAILED and
\* the upload COMPLETED.
C19_Witness ==
  /\ jobs = [LiveRows EXCEPT ![1].status = "FAILED", ![2].status = "COMPLETED"]
  /\ tasks = <<>> /\ ndel >= 2
  /\ \A m \in queue : m.job \in 1..Len(LiveRows)

\* A step in which an upload of an allowed type arrives: its temp file is
\* written and its existence check runs.
UploadStep == CheckStep /\ Submitted.ep = "file" /\ Submitted.key # <<>>

\* The job's temp file is in the temp directory.
FileKept(dir, j) == \E f \in dir : basename(f) = jobs[j].url

\* C20 as stated: the key of a new upload never equals the key of an
\* existing job, so the existence check of ingest_file never finds a row.
C20_UploadKeyNeverExists ==
  [][UploadStep => FirstByUrl(Submitted.key) = 0]_vars

\* C20 amended: the temp file of an upload has a name no file of the temp
\* directory has, so its key differs from the key of every job whose temp
\* file is still there; the existence check finds a row only for a job whose
\* temp file is gone, and then the upload is answered 500; and an accepted
\* upload has a row of its own.
C20_UploadKeyFresh ==
  [][/\ UploadStep =>
          /\ \A f \in tmpdir : basename(f) # Submitted.key
          /\ Submitted.path \in tmpdir'
          /\ \A j \in JobIds : FileKept(tmpdir, j) => jobs[j].url # Submitted.key
          /\ FirstByUrl(Submitted.key) # 0
             => /\ ~FileKept(tmpdir, FirstByUrl(Submitted.key))
                /\ resp'.outcome = "error500" /\ resp'.err = "HTTPException"
                /\ jobs' = jobs /\ queue' = queue
     /\ \A i \in 1..Len(reqs) :
          (DispatchSends(i) /\ reqs[i].ep = "file")
          => /\ jobs[reqs[i].job].url = reqs[i].key
             /\ \A j \in JobIds : jobs[j].url = reqs[i].key => j = reqs[i].job]_vars

\* C20 witness: two uploads of one file type were both accepted, each with
\* a row of its own, next to the row of an earlier upload.
C20_Witness ==
  /\ Len(jobs) = 3
  /\ resp.outcome = "accepted202" /\ resp.ep = "file"
  /\ Len(jobs[2].url) = 2 /\ Len(jobs[3].url) = 2
  /\ jobs[2].url[2] = jobs[3].url[2]
  /\ jobs[2].url # jobs[3].url
  /\ \E m \in queue : m.job = 2
  /\ \E m \in queue : m.job = 3

====
